---- MODULE Spec2Model ----
(***************************************************************************)
(* Interval-refinement genetic optimizer (GeneticNN.py).                   *)
(*                                                                         *)
(* Spec   : one run of GeneticNN.tuneParameters against a model, a data    *)
(*          supply and the search engine, from the constructed optimizer   *)
(*          to the installation of the best point.                         *)
(* SpecFn : the static helpers getValueInInterval, getSubInterval,         *)
(*          getPoint and transformWeightVecToList applied to inputs drawn  *)
(*          from bounded sets.                                             *)
(*                                                                         *)
(* Python floats are modelled as exact rationals <<num, den>> in lowest    *)
(* terms with den > 0; "/" is true division.                               *)
(***************************************************************************)
EXTENDS Integers, Sequences, FiniteSets, TLC

\* ---------------------------------------------------------------- bounds
MaxRounds == 2          \* largest numberOfIterations passed to tuneParameters
MaxEvals == 2           \* fitness evaluations the engine makes per round
MaxLen == 3             \* longest individual / interval list / point in SpecFn

\* ------------------------------------------------------- input universes
InitIntervals == {<<0, 4>>, <<1, 1>>, <<1, 0>>}   \* (low, high) given to GeneticNN
Partitions == {-1, 0, 1, 2}                      \* Config.numOfIntervalPartitions
Batches == {1, 2}                                \* batches the data supply can return
NetworkShape == <<1, 1>>                         \* the model's layer widths

\* --------------------------------------------------- exact real numbers
Abs(x) == IF x < 0 THEN -x ELSE x

RECURSIVE GCD(_, _)
GCD(a, b) == IF b = 0 THEN a ELSE GCD(b, a % b)

Rat(n, d) ==
    LET s == IF d < 0 THEN -1 ELSE 1
        g == GCD(Abs(n), Abs(d))
    IN  <<(s * n) \div g, (s * d) \div g>>

RInt(n) == <<n, 1>>
RAdd(a, b) == Rat(a[1] * b[2] + b[1] * a[2], a[2] * b[2])
RSub(a, b) == Rat(a[1] * b[2] - b[1] * a[2], a[2] * b[2])
RMulInt(a, k) == Rat(a[1] * k, a[2])
RDivInt(a, k) == Rat(a[1], a[2] * k)
RLe(a, b) == a[1] * b[2] <= b[1] * a[2]
RLt(a, b) == a[1] * b[2] < b[1] * a[2]

\* Python: True * x = x, False * x = 0
BoolToInt(b) == IF b THEN 1 ELSE 0

\* ------------------------------------------------------- SearchInterval
SearchInterval(low, high) == [low |-> low, high |-> high]

Ok(v) == [ok |-> TRUE, val |-> v]
Err == [ok |-> FALSE, val |-> <<>>]

Min(a, b) == IF a < b THEN a ELSE b

\* ------------------------------------------------------ IntervalEncoder
\* getValueInInterval with the lower middle taken at diff / P
getValueInIntervalNoHalf(interval, side, numOfIntervalPartitions) ==
    LET diff == RSub(interval.high, interval.low)
        lowSide == RAdd(interval.low, RDivInt(diff, numOfIntervalPartitions))
        lowToHighSide == RDivInt(diff, numOfIntervalPartitions)
    IN  RAdd(lowSide, RMulInt(lowToHighSide, BoolToInt(side)))

\* GeneticNN.getValueInInterval; the caller guarantees P # 0
\* (P = 0 raises ZeroDivisionError, see getPoint).
getValueInInterval(interval, side, numOfIntervalPartitions) ==
    LET diff == RSub(interval.high, interval.low)
        lowSide == RAdd(interval.low, RDivInt(diff, numOfIntervalPartitions * 2))
        lowToHighSide == RDivInt(diff, numOfIntervalPartitions)
    IN  RAdd(lowSide, RMulInt(lowToHighSide, BoolToInt(side)))

\* getSubInterval with high taken from the old low
getSubIntervalHighFromOldLow(interval, subIntervalIdx, P) ==
    LET subIntervalDelta == RDivInt(RSub(interval.high, interval.low), P)
        low == RAdd(interval.low, RMulInt(subIntervalDelta, BoolToInt(subIntervalIdx)))
        high == RAdd(interval.low, subIntervalDelta)
    IN  SearchInterval(low, high)

\* GeneticNN.getSubInterval; P is self.config.numOfIntervalPartitions, P # 0.
getSubInterval(interval, subIntervalIdx, P) ==
    LET subIntervalDelta == RDivInt(RSub(interval.high, interval.low), P)
        low == RAdd(interval.low, RMulInt(subIntervalDelta, BoolToInt(subIntervalIdx)))
        high == RAdd(low, subIntervalDelta)
    IN  SearchInterval(low, high)

\* GeneticNN.getPoint: zip stops at the shorter of the two sequences; the
\* division by zero is met only when zip yields at least one pair.
getPoint(individual, intervals, numOfIntervalPartitions) ==
    LET n == Min(Len(intervals), Len(individual))
    IN  IF n > 0 /\ numOfIntervalPartitions = 0
        THEN Err
        ELSE Ok([i \in 1..n |->
                 getValueInInterval(intervals[i], individual[i], numOfIntervalPartitions)])

\* the list comprehension of tuneParameters, lines 68-69 (zip again)
narrowAll(intervals, currentBestParams, P) ==
    LET n == Min(Len(intervals), Len(currentBestParams))
    IN  IF n > 0 /\ P = 0
        THEN Err
        ELSE Ok([i \in 1..n |-> getSubInterval(intervals[i], currentBestParams[i], P)])

\* ----------------------------------------------------- ParameterLayout
RECURSIVE Prod(_)
Prod(shape) == IF shape = <<>> THEN 1 ELSE Head(shape) * Prod(Tail(shape))

\* NNFullyConTrainer.getParametersInfoList: (shape, size) of W and b per layer
getParametersInfoList(networkShape) ==
    [j \in 1..(2 * (Len(networkShape) - 1)) |->
        LET i == (j + 1) \div 2
            shape == IF j % 2 = 1
                     THEN <<networkShape[i], networkShape[i + 1]>>
                     ELSE <<networkShape[i + 1]>>
        IN  [shape |-> shape, size |-> Prod(shape)]]

RECURSIVE SumSizes(_)
SumSizes(layout) == IF layout = <<>> THEN 0 ELSE Head(layout).size + SumSizes(Tail(layout))

\* Python slice vec[a : b] with 0-based a, b clamped to the length
Slice(vec, a, b) == SubSeq(vec, Min(a, Len(vec)) + 1, Min(b, Len(vec)))

\* NNWeightsEvaluator.transformWeightVecToList: np.reshape raises when the
\* slice does not hold exactly prod(shape) elements.
RECURSIVE transformFrom(_, _, _)
transformFrom(weightsVec, layout, curIdx) ==
    IF layout = <<>>
    THEN Ok(<<>>)
    ELSE LET w == Head(layout)
             cut == Slice(weightsVec, curIdx, curIdx + w.size)
             rest == transformFrom(weightsVec, Tail(layout), curIdx + w.size)
         IN  IF Len(cut) # Prod(w.shape)
             THEN Err
             ELSE IF rest.ok
                  THEN Ok(<<[shape |-> w.shape, data |-> cut]>> \o rest.val)
                  ELSE Err

transformWeightVecToList(weightsVec, layout) == transformFrom(weightsVec, layout, 0)

RECURSIVE Flatten(_)
Flatten(parametersList) ==
    IF parametersList = <<>> THEN <<>>
    ELSE Head(parametersList).data \o Flatten(Tail(parametersList))

\* --------------------------------------------------------------- Model
\* NNFullyConTrainer.buildLayer: every placeholder starts as np.zeros(shape)
InitialParameters(layout) ==
    [j \in 1..Len(layout) |->
        [shape |-> layout[j].shape, data |-> [i \in 1..layout[j].size |-> RInt(0)]]]

\* Model.getCELoss: a scalar that depends on the installed parameters and
\* on the batch only (here: how many parameters do not exceed the batch's
\* threshold).
getCELoss(parameters, batch) ==
    LET flat == Flatten(parameters)
    IN  Cardinality({i \in 1..Len(flat) : RLe(flat[i], RInt(batch))})

\* ----------------------------------------------------- FitnessEvaluator
\* evaluateFitness that scores before it installs
evaluateFitnessScoreFirst(individual, batch, intervals, P, layout, curModel) ==
    LET weights == getPoint(individual, intervals, P)
        parametersList == IF weights.ok
                          THEN transformWeightVecToList(weights.val, layout)
                          ELSE Err
    IN  IF parametersList.ok
        THEN [ok |-> TRUE, model |-> parametersList.val, draws |-> 1,
              fitness |-> getCELoss(curModel, batch)]
        ELSE [ok |-> FALSE, model |-> curModel, draws |-> 0, fitness |-> 0]

\* NNWeightsEvaluator.evaluateFitness(individual) with the batch the data
\* supply returns on this call; curModel is the model's installed state.
evaluateFitness(individual, batch, intervals, P, layout, curModel) ==
    LET weights == getPoint(individual, intervals, P)
        parametersList == IF weights.ok
                          THEN transformWeightVecToList(weights.val, layout)
                          ELSE Err
    IN  IF parametersList.ok
        THEN [ok |-> TRUE, model |-> parametersList.val, draws |-> 1,
              fitness |-> getCELoss(parametersList.val, batch)]
        ELSE [ok |-> FALSE, model |-> curModel, draws |-> 0, fitness |-> 0]

\* updateSearchIntervals that keeps the old intervals
updateSearchIntervalsStale(oldSearchIntervals, newSearchIntervals) == oldSearchIntervals

\* NNWeightsEvaluator.updateSearchIntervals
updateSearchIntervals(oldSearchIntervals, newSearchIntervals) == newSearchIntervals

\* ------------------------------------------------------- search engine
\* bestFitness = None / no best individual recorded yet
NoFitness == -1

Individuals(n) == [1..n -> BOOLEAN]

\* GeneticSearch keeps the best individual (lowest fitness, first one on a
\* tie) among those it evaluated since the population was constructed.
gaRecord(best, individual, fitness) ==
    IF best.fitness = NoFitness \/ fitness < best.fitness
    THEN [individual |-> individual, fitness |-> fitness]
    ELSE best

NoBest == [individual |-> <<>>, fitness |-> NoFitness]

\* ------------------------------------------------------------- state
VARIABLES
    searchInterval,             \* GeneticNN.searchInterval
    numOfIntervalPartitions,    \* GeneticNN.config.numOfIntervalPartitions
    pc,                         \* position inside tuneParameters
    numberOfIterations,         \* argument of tuneParameters
    iteration,                  \* rounds completed
    searchIntervals,            \* local of tuneParameters
    evalIntervals,              \* NNWeightsEvaluator.searchIntervals
    bestParams, bestFitness, bestPoint,   \* locals of tuneParameters
    currentBestPoint,           \* local of tuneParameters (last round)
    gaBest,                     \* engine: best individual / fitness of the round
    evals,                      \* engine: evaluations made in this round
    populations,                \* engine: populations constructed
    model,                      \* the Model's installed parameter groups
    lastEval,                   \* last evaluateFitness: arguments, data supply calls, result
    rounds,                     \* history: space, best individual, fitness per round
    call                        \* SpecFn: the helper call just made

vars == <<searchInterval, numOfIntervalPartitions, pc, numberOfIterations, iteration,
          searchIntervals, evalIntervals, bestParams, bestFitness, bestPoint,
          currentBestPoint, gaBest, evals, populations, model,
          lastEval, rounds, call>>

configVars == <<searchInterval, numOfIntervalPartitions>>
bestVars == <<bestParams, bestFitness, bestPoint>>
engineVars == <<gaBest, evals, populations>>
modelVars == <<model, lastEval>>

Layout == getParametersInfoList(NetworkShape)
numberOfParameters == SumSizes(Layout)

NoCall == [op |-> "none"]
NoEval == [individual |-> <<>>, batch |-> 0, draws |-> 0, fitness |-> NoFitness]

\* GeneticNN.__init__ stores its arguments as they are; the model is built.
Init ==
    /\ searchInterval \in {SearchInterval(RInt(i[1]), RInt(i[2])) : i \in InitIntervals}
    /\ numOfIntervalPartitions \in Partitions
    /\ pc = "idle"
    /\ numberOfIterations = 0
    /\ iteration = 0
    /\ searchIntervals = <<>>
    /\ evalIntervals = <<>>
    /\ bestParams = <<>>
    /\ bestFitness = NoFitness
    /\ bestPoint = <<>>
    /\ currentBestPoint = <<>>
    /\ gaBest = NoBest
    /\ evals = 0
    /\ populations = 0
    /\ model = InitialParameters(Layout)
    /\ lastEval = NoEval
    /\ rounds = <<>>
    /\ call = NoCall

\* tuneParameters, lines 36-51: locals, evaluator and engine are created.
TuneParameters ==
    /\ pc = "idle"
    /\ \E n \in 0..MaxRounds : numberOfIterations' = n
    /\ iteration' = 0
    /\ searchIntervals' = [i \in 1..numberOfParameters |-> searchInterval]
    /\ evalIntervals' = searchIntervals'
    /\ bestParams' = <<>>
    /\ bestFitness' = NoFitness
    /\ bestPoint' = <<>>
    /\ pc' = IF numberOfIterations' > 0 THEN "construct" ELSE "finish"
    /\ UNCHANGED <<configVars, currentBestPoint, engineVars, modelVars, rounds, call>>

\* line 53: GA.constructPopulation
ConstructPopulation ==
    /\ pc = "construct"
    /\ populations' = populations + 1
    /\ gaBest' = NoBest
    /\ evals' = 0
    /\ pc' = "evolve"
    /\ UNCHANGED <<configVars, numberOfIterations, iteration, searchIntervals,
                   evalIntervals, bestVars, currentBestPoint, modelVars, rounds, call>>

\* line 54: during GA.startEvolution the engine calls evaluator.evaluateFitness
EvaluateIndividual ==
    /\ pc = "evolve"
    /\ evals < MaxEvals
    /\ \E individual \in Individuals(numberOfParameters), batch \in Batches :
         LET r == evaluateFitness(individual, batch, evalIntervals,
                                  numOfIntervalPartitions, Layout, model)
         IN  /\ r.ok
             /\ model' = r.model
             /\ lastEval' = [individual |-> individual, batch |-> batch,
                             draws |-> r.draws, fitness |-> r.fitness]
             /\ gaBest' = gaRecord(gaBest, individual, r.fitness)
    /\ evals' = evals + 1
    /\ UNCHANGED <<configVars, pc, numberOfIterations, iteration, searchIntervals,
                   evalIntervals, bestVars, currentBestPoint, populations, rounds, call>>

\* line 54: evaluateFitness raises (ZeroDivisionError); it propagates out of
\* tuneParameters.
EvaluateRaises ==
    /\ pc = "evolve"
    /\ evals < MaxEvals
    /\ \E individual \in Individuals(numberOfParameters), batch \in Batches :
         ~evaluateFitness(individual, batch, evalIntervals,
                          numOfIntervalPartitions, Layout, model).ok
    /\ pc' = "failed"
    /\ UNCHANGED <<configVars, numberOfIterations, iteration, searchIntervals,
                   evalIntervals, bestVars, currentBestPoint, engineVars, modelVars,
                   rounds, call>>

\* line 58 with <= for <
isBetterOrEqual(currentBestFitness, fitness) ==
    fitness = NoFitness \/ currentBestFitness <= fitness

\* line 58
isBetter(currentBestFitness, fitness) ==
    fitness = NoFitness \/ currentBestFitness < fitness

\* lines 56-71: read the round's best, update the best result, narrow.
RoundEnd ==
    /\ pc = "evolve"
    /\ evals >= 1
    /\ LET currentBestParams == gaBest.individual
           currentBestFitness == gaBest.fitness
           point == getPoint(currentBestParams, searchIntervals, numOfIntervalPartitions)
           updatedSearchIntervals ==
               narrowAll(searchIntervals, currentBestParams, numOfIntervalPartitions)
       IN  /\ point.ok /\ updatedSearchIntervals.ok
           /\ currentBestPoint' = point.val
           /\ IF isBetter(currentBestFitness, bestFitness)
              THEN /\ bestParams' = currentBestParams
                   /\ bestFitness' = currentBestFitness
                   /\ bestPoint' = point.val
              ELSE UNCHANGED bestVars
           /\ searchIntervals' = updatedSearchIntervals.val
           /\ evalIntervals' = updateSearchIntervals(evalIntervals, searchIntervals')
           /\ rounds' = Append(rounds, [space |-> searchIntervals,
                                        best |-> currentBestParams,
                                        fitness |-> currentBestFitness])
    /\ iteration' = iteration + 1
    /\ pc' = IF iteration' < numberOfIterations THEN "construct" ELSE "finish"
    /\ UNCHANGED <<configVars, numberOfIterations, engineVars, modelVars, call>>

\* line 74 installing the last round's point
FinishLastRound ==
    /\ pc = "finish"
    /\ bestFitness # NoFitness
    /\ LET parametersList == transformWeightVecToList(currentBestPoint, Layout)
       IN  /\ parametersList.ok
           /\ model' = parametersList.val
    /\ pc' = "done"
    /\ UNCHANGED <<configVars, numberOfIterations, iteration, searchIntervals,
                   evalIntervals, bestVars, currentBestPoint, engineVars, lastEval,
                   rounds, call>>

\* line 74: install the best point
Finish ==
    /\ pc = "finish"
    /\ bestFitness # NoFitness
    /\ LET parametersList == transformWeightVecToList(bestPoint, Layout)
       IN  /\ parametersList.ok
           /\ model' = parametersList.val
    /\ pc' = "done"
    /\ UNCHANGED <<configVars, numberOfIterations, iteration, searchIntervals,
                   evalIntervals, bestVars, currentBestPoint, engineVars, lastEval,
                   rounds, call>>

\* line 74 with bestPoint = None (no round ran): slicing None raises TypeError
FinishRaises ==
    /\ pc = "finish"
    /\ bestFitness = NoFitness
    /\ pc' = "failed"
    /\ UNCHANGED <<configVars, numberOfIterations, iteration, searchIntervals,
                   evalIntervals, bestVars, currentBestPoint, engineVars, modelVars,
                   rounds, call>>

Next ==
    \/ TuneParameters
    \/ ConstructPopulation
    \/ EvaluateIndividual
    \/ EvaluateRaises
    \/ RoundEnd
    \/ Finish
    \/ FinishRaises

Spec == Init /\ [][Next]_vars

\* ---------------------------------------------- helpers applied on their own
FnEnds == {-2, 0, 1, 10}                 \* interval ends given to the helpers
FnPartitions == {-1, 0, 1, 2, 5}         \* partition counts given to the helpers
FnLayouts == {getParametersInfoList(<<1, 1>>), getParametersInfoList(<<2, 1>>)}

SeqsUpTo(S, n) == UNION {[1..k -> S] : k \in 0..n}

InitFn ==
    /\ Init
    /\ searchInterval = SearchInterval(RInt(0), RInt(4))
    /\ numOfIntervalPartitions = 2

fnVars == <<configVars, pc, numberOfIterations, iteration, searchIntervals,
            evalIntervals, bestVars, currentBestPoint, engineVars, lastEval, rounds>>

\* GeneticNN.getValueInInterval(SearchInterval(low, high), side, P)
CallGetValueInInterval ==
    /\ call = NoCall
    /\ \E low \in FnEnds, high \in FnEnds, side \in BOOLEAN, P \in FnPartitions :
         call' = [op |-> "getValueInInterval", low |-> low, high |-> high,
                  side |-> side, P |-> P,
                  result |-> IF P = 0 THEN Err
                             ELSE Ok(getValueInInterval(
                                      SearchInterval(RInt(low), RInt(high)), side, P))]
    /\ UNCHANGED <<fnVars, model>>

\* GeneticNN.getSubInterval(SearchInterval(low, high), side)
CallGetSubInterval ==
    /\ call = NoCall
    /\ \E low \in FnEnds, high \in FnEnds, side \in BOOLEAN, P \in FnPartitions :
         call' = [op |-> "getSubInterval", low |-> low, high |-> high,
                  side |-> side, P |-> P,
                  result |-> IF P = 0 THEN Err
                             ELSE Ok(getSubInterval(
                                      SearchInterval(RInt(low), RInt(high)), side, P))]
    /\ UNCHANGED <<fnVars, model>>

\* GeneticNN.getPoint(individual, intervals, P)
CallGetPoint ==
    /\ call = NoCall
    /\ \E individual \in SeqsUpTo(BOOLEAN, MaxLen),
          ends \in SeqsUpTo({<<0, 10>>, <<1, 1>>}, MaxLen),
          P \in FnPartitions :
         call' = [op |-> "getPoint", individual |-> individual, ends |-> ends, P |-> P,
                  result |-> getPoint(individual,
                                 [i \in 1..Len(ends) |->
                                     SearchInterval(RInt(ends[i][1]), RInt(ends[i][2]))],
                                 P)]
    /\ UNCHANGED <<fnVars, model>>

\* model.updateParameters(evaluator.transformWeightVecToList(weightsVec)),
\* as in evaluateFitness lines 151-154 and tuneParameters line 74
CallTransformAndInstall ==
    /\ call = NoCall
    /\ \E weights \in SeqsUpTo({0, 1}, MaxLen), layout \in FnLayouts :
         LET weightsVec == [i \in 1..Len(weights) |-> RInt(weights[i])]
             parametersList == transformWeightVecToList(weightsVec, layout)
         IN  /\ call' = [op |-> "transformWeightVecToList", weightsVec |-> weightsVec,
                         layout |-> layout, before |-> model, result |-> parametersList]
             /\ model' = IF parametersList.ok THEN parametersList.val ELSE model
    /\ UNCHANGED fnVars

NextFn ==
    \/ CallGetValueInInterval
    \/ CallGetSubInterval
    \/ CallGetPoint
    \/ CallTransformAndInstall

SpecFn == InitFn /\ [][NextFn]_vars

\* ======================================================================
\* Properties
\* ======================================================================
InitialSpace == [i \in 1..numberOfParameters |-> searchInterval]

\* the ParameterSpace of round k + 1: the initial space narrowed by the best
\* individuals of rounds 1..k
RECURSIVE SpaceAfter(_)
SpaceAfter(k) ==
    IF k = 0 THEN InitialSpace
    ELSE narrowAll(SpaceAfter(k - 1), rounds[k].best, numOfIntervalPartitions).val

\* the first round whose best fitness is the lowest of the run
BestRound ==
    CHOOSE k \in 1..Len(rounds) :
        \A j \in 1..Len(rounds) :
            /\ rounds[k].fitness <= rounds[j].fitness
            /\ j < k => rounds[j].fitness > rounds[k].fitness

AllFalse == [i \in 1..numberOfParameters |-> FALSE]

\* C1: when tuneParameters has returned (N >= 1 rounds), the model holds the
\* point of the round with the lowest best fitness, resolved against that
\* round's ParameterSpace and reshaped by the layout; with N = 1 and an
\* all-false best individual that is the all-false individual resolved
\* against the initial space.
BestInstalledOnReturn ==
    pc = "done" =>
        /\ Len(rounds) = numberOfIterations /\ numberOfIterations >= 1
        /\ model = transformWeightVecToList(
                       getPoint(rounds[BestRound].best, SpaceAfter(BestRound - 1),
                                numOfIntervalPartitions).val, Layout).val
        /\ (numberOfIterations = 1 /\ rounds[1].best = AllFalse) =>
               Flatten(model) = [i \in 1..numberOfParameters |->
                   getValueInInterval(searchInterval, FALSE, numOfIntervalPartitions)]

\* C1 witness: a two-round run whose first round was the better one has
\* returned, the last evaluated individual not being the best one
BestInstalledWitness ==
    /\ pc = "done"
    /\ Len(rounds) = 2
    /\ rounds[1].fitness < rounds[2].fitness
    /\ searchInterval = SearchInterval(RInt(0), RInt(4))
    /\ Flatten(model) # getPoint(lastEval.individual, SpaceAfter(1),
                                 numOfIntervalPartitions).val

\* C2: the best fitness never increases from one step to the next, and the
\* best result (individual, fitness, point) changes only at the end of a round
\* whose best fitness is strictly lower than the stored one or when none is
\* stored; on a tie or a worse round all three are kept.
BestNeverWorsens ==
    [][ /\ bestFitness # NoFitness =>
              (bestFitness' # NoFitness /\ bestFitness' <= bestFitness)
        /\ bestVars' # bestVars =>
              /\ Len(rounds') = Len(rounds) + 1
              /\ LET r == rounds'[Len(rounds')]
                 IN  /\ bestFitness = NoFitness \/ r.fitness < bestFitness
                     /\ bestFitness' = r.fitness
                     /\ bestParams' = r.best
                     /\ bestPoint' = getPoint(r.best, r.space, numOfIntervalPartitions).val
        /\ ( /\ Len(rounds') = Len(rounds) + 1
             /\ bestFitness # NoFitness
             /\ rounds'[Len(rounds')].fitness >= bestFitness ) => bestVars' = bestVars
      ]_vars

\* C2 witness: the second round tied with the first one on another point and
\* the first round's result was kept
BestKeptOnTieWitness ==
    /\ Len(rounds) = 2
    /\ rounds[2].fitness = rounds[1].fitness
    /\ bestFitness = rounds[1].fitness
    /\ bestParams = rounds[1].best
    /\ currentBestPoint # bestPoint

\* C3 (as claimed): for P > 0 and low <= high every narrowed interval has
\* 1/P of the width of the interval it was narrowed from and lies inside it,
\* so every interval of the ParameterSpace has low <= high and lies inside
\* the initial interval.
NarrowStaysInside ==
    (numOfIntervalPartitions > 0 /\ RLe(searchInterval.low, searchInterval.high)) =>
        \A i \in 1..Len(searchIntervals) :
            /\ RLe(searchInterval.low, searchIntervals[i].low)
            /\ RLe(searchIntervals[i].low, searchIntervals[i].high)
            /\ RLe(searchIntervals[i].high, searchInterval.high)
            /\ Len(rounds) >= 1 =>
                 LET old == rounds[Len(rounds)].space[i]
                 IN  /\ RMulInt(RSub(searchIntervals[i].high, searchIntervals[i].low),
                                numOfIntervalPartitions) = RSub(old.high, old.low)
                     /\ RLe(old.low, searchIntervals[i].low)
                     /\ RLe(searchIntervals[i].high, old.high)

\* C5 (as claimed): a malformed configuration (P <= 0, low > high, zero
\* rounds) is rejected before a population is constructed, a fitness is
\* evaluated or a parameter is installed.
Malformed ==
    \/ numOfIntervalPartitions <= 0
    \/ RLt(searchInterval.high, searchInterval.low)
    \/ (pc # "idle" /\ numberOfIterations = 0)

MalformedRejected ==
    Malformed =>
        /\ populations = 0
        /\ lastEval = NoEval
        /\ model = InitialParameters(Layout)

\* C8: in every round the evaluator resolves individuals against the space
\* the optimizer holds for that round, which is the initial space narrowed by
\* the best individuals of the earlier rounds: the model holds the evaluated
\* individual resolved against exactly that space.
EvaluatorSpaceCurrent ==
    /\ pc \in {"construct", "evolve"} =>
          /\ evalIntervals = searchIntervals
          /\ searchIntervals = SpaceAfter(iteration)
          /\ Len(rounds) = iteration
    /\ (pc = "evolve" /\ evals >= 1) =>
          model = transformWeightVecToList(
                      getPoint(lastEval.individual, SpaceAfter(iteration),
                               numOfIntervalPartitions).val, Layout).val

\* C8 witness: an individual has been evaluated in the second round, whose
\* space differs from the initial one
EvaluatorSpaceWitness ==
    /\ pc = "evolve"
    /\ iteration = 1
    /\ evals >= 1
    /\ searchIntervals # InitialSpace
    /\ Flatten(model) # getPoint(lastEval.individual, InitialSpace,
                                 numOfIntervalPartitions).val

\* C9: after a call of evaluateFitness the model holds the point of the
\* individual just evaluated (in the layout's shapes), the data supply was
\* invoked exactly once, and the value returned is the model's loss on that
\* batch with that point installed.
EvaluateInstallsThenScores ==
    (pc = "evolve" /\ evals >= 1) =>
        /\ Flatten(model) = getPoint(lastEval.individual, evalIntervals,
                                     numOfIntervalPartitions).val
        /\ \A j \in 1..Len(Layout) :
              model[j].shape = Layout[j].shape /\ Len(model[j].data) = Layout[j].size
        /\ Len(model) = Len(Layout)
        /\ lastEval.draws = 1
        /\ lastEval.fitness = getCELoss(model, lastEval.batch)

\* C9 witness: the individual evaluated last in the round is worse than the
\* round's best so far, and it is the one installed
EvaluateWitness ==
    /\ pc = "evolve"
    /\ evals = 2
    /\ gaBest.fitness < lastEval.fitness
    /\ gaBest.individual # lastEval.individual
    /\ Flatten(model) # getPoint(gaBest.individual, evalIntervals,
                                 numOfIntervalPartitions).val

\* C10: for P > 0 and low <= high, every component of a round's best point
\* is the value of the best individual's bit in that round's interval, is the
\* midpoint of the narrowed interval of the next round, and lies inside it.
BestPointIsNextMidpoint ==
    ( /\ numOfIntervalPartitions > 0
      /\ RLe(searchInterval.low, searchInterval.high)
      /\ iteration >= 1 ) =>
        /\ Len(currentBestPoint) = numberOfParameters
        /\ \A i \in 1..numberOfParameters :
              LET r == rounds[Len(rounds)]
                  next == searchIntervals[i]
              IN  /\ currentBestPoint[i] =
                        getValueInInterval(r.space[i], r.best[i], numOfIntervalPartitions)
                  /\ RMulInt(currentBestPoint[i], 2) = RAdd(next.low, next.high)
                  /\ RLe(next.low, currentBestPoint[i])
                  /\ RLe(currentBestPoint[i], next.high)

\* C10 witness: a round ended with a best individual of mixed bits on a
\* proper interval
BestPointMidpointWitness ==
    /\ iteration >= 1
    /\ numOfIntervalPartitions = 2
    /\ searchInterval = SearchInterval(RInt(0), RInt(4))
    /\ currentBestPoint[1] # currentBestPoint[2]
    /\ RLt(searchIntervals[1].low, searchIntervals[1].high)

\* ---- helpers on their own (SpecFn)
\* value = num / den as computed from integers (low, high, P), P > 0
IsLowerValue(v, low, high, P) == v[1] * 2 * P = v[2] * (2 * P * low + (high - low))
IsUpperValue(v, low, high, P) == v[1] * 2 * P = v[2] * (2 * P * low + 3 * (high - low))
InLowerRange(v, low, high, P) ==
    low * v[2] <= v[1] /\ v[1] * P <= v[2] * (P * low + (high - low))
InUpperRange(v, low, high, P) ==
    v[2] * (P * low + (high - low)) < v[1] * P
        /\ v[1] * P <= v[2] * (P * low + 2 * (high - low))

ValueClaim(c) ==
    /\ c.result.ok
    /\ IF c.side
       THEN IsUpperValue(c.result.val, c.low, c.high, c.P)
            /\ InUpperRange(c.result.val, c.low, c.high, c.P)
       ELSE IsLowerValue(c.result.val, c.low, c.high, c.P)
            /\ InLowerRange(c.result.val, c.low, c.high, c.P)
    /\ (c.low = 0 /\ c.high = 10 /\ c.P = 5) =>
           c.result.val = IF c.side THEN <<3, 1>> ELSE <<1, 1>>

\* C4 (as claimed): for all intervals (low <= high) and all P > 0
\* getValueInInterval returns low + (high-low)/(2P) within
\* [low, low + (high-low)/P] for side = false and that plus (high-low)/P
\* within (low + (high-low)/P, low + 2(high-low)/P] for side = true.
ValueInRangeAllIntervals ==
    (call.op = "getValueInInterval" /\ call.P > 0 /\ call.low <= call.high) =>
        ValueClaim(call)

\* C4 (amended): the two values are as stated for every pair (low, high);
\* they lie in the stated ranges for all intervals with low < high.
ValueInRangeProperIntervals ==
    (call.op = "getValueInInterval" /\ call.P > 0) =>
        /\ call.result.ok
        /\ IF call.side
           THEN IsUpperValue(call.result.val, call.low, call.high, call.P)
           ELSE IsLowerValue(call.result.val, call.low, call.high, call.P)
        /\ call.low < call.high => ValueClaim(call)

\* C4 witness: the upper value of (0, 10) with 5 partitions is 3
ValueWitness ==
    /\ call.op = "getValueInInterval"
    /\ call.low = 0 /\ call.high = 10 /\ call.P = 5 /\ call.side
    /\ call.result = Ok(<<3, 1>>)

\* C6 (as claimed): reshaping a point whose length differs from the layout's
\* total element count fails, and nothing is installed.
TransformRejectsMismatch ==
    ( /\ call.op = "transformWeightVecToList"
      /\ Len(call.weightsVec) # SumSizes(call.layout) ) =>
        (~call.result.ok /\ model = call.before)

\* C7 (as claimed): getPoint keeps the length when individual and intervals
\* have the same length and raises when they differ.
GetPointChecksLengths ==
    (call.op = "getPoint" /\ call.P > 0) =>
        IF Len(call.individual) = Len(call.ends)
        THEN call.result.ok /\ Len(call.result.val) = Len(call.individual)
        ELSE ~call.result.ok

====
